---- MODULE Spec2Model ----
(***************************************************************************)
(* gotemp: a convention-driven loader and renderer of html/template sets.  *)
(*                                                                         *)
(* New(basePath) loads root.html, clones it and parses partials/x.html,    *)
(* clones that and parses layouts/x.html, then clones the layout set once  *)
(* per page file under pages/<category>/ and parses the file into the      *)
(* clone.  RenderPage looks the page up and executes one named template.   *)
(*                                                                         *)
(* Template sets are mutable objects of the Go heap (template.Template):   *)
(* they are modelled as references into `heap`, so that cloning versus     *)
(* sharing is visible.  The html/template engine and the os/path calls are *)
(* modelled by their documented contracts at the places gotemp calls them: *)
(* ParseGlob fails when its pattern matches no file, Clone is a deep copy, *)
(* a redefinition with a non-empty body replaces a fragment, an undefined  *)
(* template name fails before anything is written, an execution error      *)
(* leaves what was already written, execution only reads the set.          *)
(***************************************************************************)
EXTENDS Integers, Sequences, FiniteSets, TLC

\* The nesting of {{template}} calls at which the engine stops an execution
\* with an error (text/template's maxExecDepth, scaled down).
MaxExecDepth == 3

\* The goroutines that call RenderPage on the one engine.
Threads == {1, 2}

Nil == "nil"

(***************************************************************************)
(* Template sources.  A parsed file is its top-level body plus the bodies  *)
(* it defines; a body is a sequence of nodes: literal text, a field of the *)
(* data ({{.Title}}), a call of another fragment ({{template "x" .}}).     *)
(* {{block "x" .}}d{{end}} is the engine's shorthand for defining x as d   *)
(* and calling it, and is written here expanded.                           *)
(***************************************************************************)
T(s) == [k |-> "text", v |-> s]
F(f) == [k |-> "field", v |-> f]
Call(n) == [k |-> "template", v |-> n]

EmptyDefs == [n \in {} |-> <<>>]

Src(body, defs) == [ok |-> TRUE, body |-> body, defs |-> defs]

\* A file whose text is not a well-formed template.
BadSrc == [ok |-> FALSE, body |-> <<>>, defs |-> EmptyDefs]

RootSrc ==
    Src(<<>>, [n \in {"__start", "__end"} |->
                 IF n = "__start" THEN <<T("<!DOCTYPE html>"), F("Title")>>
                                  ELSE <<T("</html>")>>])

HeaderSrc == Src(<<>>, [n \in {"_header"} |-> <<T("Your APP!!")>>])

AppSrc ==
    Src(<<>>, [n \in {"app_layout", "content"} |->
                 IF n = "app_layout"
                 THEN <<Call("__start"), Call("_header"), Call("content"), Call("__end")>>
                 ELSE <<T("(no content)")>>])

\* A layout that calls a fragment nobody defines.
AuthSrc ==
    Src(<<>>, [n \in {"auth_layout"} |-> <<Call("__start"), Call("_footer")>>])

IndexSrc == Src(<<>>, [n \in {"content"} |-> <<T("Homepage"), F("Body")>>])

\* A page with a top-level body and no definition of "content".
AboutSrc == Src(<<T("About")>>, EmptyDefs)

\* A page whose content calls itself without end.
PostSrc == Src(<<>>, [n \in {"content"} |-> <<T("Post"), Call("content")>>])

(***************************************************************************)
(* The directory tree under basePath.  A directory may not exist; when it  *)
(* does, its entries are in the order os.ReadDir and filepath.Glob return  *)
(* them, sorted by name.                                                   *)
(***************************************************************************)
File(name, src) == [name |-> name, isDir |-> FALSE, src |-> src, files |-> <<>>]
Dir(name, files) == [name |-> name, isDir |-> TRUE, src |-> BadSrc, files |-> files]

NoDir == [exists |-> FALSE, entries |-> <<>>]
Entries(es) == [exists |-> TRUE, entries |-> es]

\* The names the glob pattern for .html files matches.
HtmlNames == {"root.html", "_header.html", "app.html", "auth.html",
              "about.html", "index.html", "post.html", "old.html"}

\* What is at basePath/root.html: nothing, a malformed file, a good one.
RootChoices ==
    { NoDir,
      Entries(<<File("root.html", BadSrc)>>),
      Entries(<<File("root.html", RootSrc)>>) }

PartialsChoices ==
    { NoDir,
      Entries(<<>>),
      Entries(<<File("README.md", BadSrc)>>),
      Entries(<<File("_header.html", BadSrc)>>),
      Entries(<<File("_header.html", HeaderSrc)>>),
      Entries(<<File("_header.html", HeaderSrc), Dir("old.html", <<>>)>>) }

LayoutsChoices ==
    { NoDir,
      Entries(<<>>),
      Entries(<<File("app.html", BadSrc)>>),
      Entries(<<File("app.html", AppSrc)>>),
      Entries(<<File("app.html", AppSrc), File("auth.html", AuthSrc)>>) }

PagesChoices ==
    { NoDir,
      Entries(<<>>),
      Entries(<<Dir("home", <<File("index.html", IndexSrc)>>)>>),
      Entries(<<Dir("blog", <<File("notes.txt", AboutSrc),
                              File("post.html", PostSrc)>>),
                Dir("home", <<File("about.html", AboutSrc), Dir("drafts", <<>>),
                              File("index.html", IndexSrc)>>)>>),
      Entries(<<Dir("home", <<File("about.html", AboutSrc),
                              File("index.html", BadSrc)>>)>>),
      Entries(<<Dir("home", <<File("index.html", IndexSrc)>>),
                File("notes.txt", BadSrc)>>) }

Trees ==
    [root : RootChoices, partials : PartialsChoices,
     layouts : LayoutsChoices, pages : PagesChoices]

(***************************************************************************)
(* The engine's parsing, as gotemp uses it.                                *)
(***************************************************************************)
IsEmptyTree(body) == body = <<>>

\* One fragment added to a set: a redefinition replaces the fragment unless
\* the new body is empty.
AddParseTree(frags, name, body) ==
    IF name \in DOMAIN frags /\ IsEmptyTree(body)
    THEN frags
    ELSE [n \in DOMAIN frags \cup {name} |-> IF n = name THEN body ELSE frags[n]]

\* A well-formed file parsed into a set: the file's base name gets its
\* top-level body, then each {{define}} is added.
Parse(frags, name, src) ==
    LET top == AddParseTree(frags, name, src.body)
    IN [n \in DOMAIN top \cup DOMAIN src.defs |->
          IF n \in DOMAIN src.defs
          THEN AddParseTree(top, n, src.defs[n])[n]
          ELSE top[n]]

\* A file can be read and parsed.
Parseable(entry) == ~entry.isDir /\ entry.src.ok

\* ParseFiles into the set at ref, file by file, stopping at the first file
\* that cannot be read or parsed; the files before it stay parsed.
RECURSIVE parseFiles(_, _, _)
parseFiles(h, ref, entries) ==
    IF entries = <<>> THEN [heap |-> h, err |-> Nil]
    ELSE LET e == Head(entries)
         IN IF ~Parseable(e)
            THEN [heap |-> h, err |-> "cannot read or parse " \o e.name]
            ELSE parseFiles([h EXCEPT ![ref] = Parse(h[ref], e.name, e.src)],
                            ref, Tail(entries))

\* filepath.Glob on dir with the .html pattern: the matching entries of
\* dir, none when dir does not exist.
Glob(dir) == SelectSeq(dir.entries, LAMBDA e : e.name \in HtmlNames)

\* ParseGlob as it would be if a pattern that matches no file were not an
\* error: nothing is parsed.
ParseGlobAllowsNoMatch(h, ref, dir) == parseFiles(h, ref, Glob(dir))

\* Template.ParseGlob: the pattern must match at least one file.
ParseGlob(h, ref, dir) ==
    IF Glob(dir) = <<>>
    THEN [heap |-> h, err |-> "html/template: pattern matches no files"]
    ELSE parseFiles(h, ref, Glob(dir))

\* clone as it would be if it handed back the set itself instead of a copy.
cloneShared(h, ref) == [heap |-> h, ref |-> ref, err |-> Nil]

\* A fresh object holding a deep copy of the set at ref.  Clone fails only
\* on a set that has been executed, which no set is during loading: err is
\* nil, and the callers' checks of it are kept.
clone(h, ref) ==
    [heap |-> Append(h, h[ref]), ref |-> Len(h) + 1, err |-> Nil]

\* path.Join(dirName, fileName)
\* The key as it would be if it were the file's name alone.
pageKeyBase(dirName, fileName) == fileName

pageKey(dirName, fileName) == dirName \o "/" \o fileName

(***************************************************************************)
(* State.                                                                  *)
(***************************************************************************)
VARIABLES
    fs,        \* the directory tree under basePath
    heap,      \* the template sets allocated so far, by reference 1..Len(heap)
    pc,        \* where New is
    root,      \* loadPages' local root (0: not yet set)
    partials,  \* loadPages' local partials
    layouts,   \* loadPages' local layouts
    pages,     \* loadPages' local pages map: page key -> reference
    ci,        \* index of the current entry of pages/
    fi,        \* index of the current file of that entry
    tcPages,   \* the field tc.pages (a nil map reads as an empty one)
    newRet,    \* what New returned: [engine: non-nil?, err]
    rt         \* per goroutine: its RenderPage call and the call's destination

loadVars == <<fs, heap, pc, root, partials, layouts, pages, ci, fi, tcPages, newRet>>
vars == <<fs, heap, pc, root, partials, layouts, pages, ci, fi, tcPages, newRet, rt>>

NoFields == [f \in {} |-> <<>>]
TitleOnly == [f \in {"Title"} |-> <<"a", "<", "b">>]

DataNil == [kind |-> "nil", fields |-> NoFields]
DataMap == [kind |-> "map", fields |-> TitleOnly]
DataStruct == [kind |-> "struct", fields |-> TitleOnly]

\* A goroutine that is not in a call; the fields of a call otherwise.
Idle ==
    [pc |-> "idle", layout |-> "", page |-> "", data |-> DataNil,
     tmpl |-> 0, stack |-> <<>>, buf |-> <<>>, ret |-> Nil]

NoPages == [k \in {} |-> 0]
NotReturned == [engine |-> FALSE, err |-> "(New has not returned)"]

\* New as it would be if it returned the engine it built whatever
\* loadPages returned.
NewKeepsEngine(err) == [engine |-> TRUE, err |-> err]

\* New: a nil engine with the error of loadPages, or the engine and nil.
New(err) == [engine |-> err = Nil, err |-> err]

Init ==
    /\ fs \in Trees
    /\ heap = <<>>
    /\ pc = "loadRoot"
    /\ root = 0 /\ partials = 0 /\ layouts = 0
    /\ pages = NoPages
    /\ ci = 1 /\ fi = 1
    /\ tcPages = NoPages
    /\ newRet = NotReturned
    /\ rt = [g \in Threads |-> Idle]

\* loadPages returns err, and New returns with it.
Fail(err) ==
    /\ pc' = "returned"
    /\ newRet' = New(err)

\* tc.loadRoot(): template.ParseGlob(basePath/root.html)
loadRoot ==
    /\ pc = "loadRoot"
    /\ LET r == ParseGlob(<<EmptyDefs>>, 1, fs.root)
       IN IF r.err # Nil
          THEN /\ Fail("failed to load root template: " \o r.err)
               /\ UNCHANGED <<heap, root>>
          ELSE /\ heap' = r.heap
               /\ root' = 1
               /\ pc' = "loadPartials"
               /\ UNCHANGED newRet
    /\ UNCHANGED <<fs, partials, layouts, pages, ci, fi, tcPages, rt>>

\* tc.loadPartials(root): clone the root, ParseGlob partials into the clone.
loadPartials ==
    /\ pc = "loadPartials"
    /\ LET c == clone(heap, root)
           r == ParseGlob(c.heap, c.ref, fs.partials)
           err == IF c.err # Nil THEN "failed to clone root template: " \o c.err
                  ELSE r.err
       IN /\ heap' = IF c.err # Nil THEN heap ELSE r.heap
          /\ IF err # Nil
             THEN /\ Fail("failed to load partials: " \o err)
                  /\ UNCHANGED partials
             ELSE /\ partials' = c.ref
                  /\ pc' = "loadLayouts"
                  /\ UNCHANGED newRet
    /\ UNCHANGED <<fs, root, layouts, pages, ci, fi, tcPages, rt>>

\* tc.loadLayouts(partials): clone the partials, ParseGlob layouts into it.
loadLayouts ==
    /\ pc = "loadLayouts"
    /\ LET c == clone(heap, partials)
           r == ParseGlob(c.heap, c.ref, fs.layouts)
           err == IF c.err # Nil THEN "failed to clone partials template: " \o c.err
                  ELSE r.err
       IN /\ heap' = IF c.err # Nil THEN heap ELSE r.heap
          /\ IF err # Nil
             THEN /\ Fail("failed to load layouts: " \o err)
                  /\ UNCHANGED layouts
             ELSE /\ layouts' = c.ref
                  /\ pc' = "readPages"
                  /\ UNCHANGED newRet
    /\ UNCHANGED <<fs, root, partials, pages, ci, fi, tcPages, rt>>

\* readPages as it would be if the error of os.ReadDir were dropped: a
\* missing pages directory reads as an empty one.
readPagesIgnoresError ==
    /\ pc = "readPages"
    /\ pc' = "readCategory"
    /\ pages' = NoPages
    /\ ci' = 1
    /\ UNCHANGED <<fs, heap, root, partials, layouts, fi, tcPages, newRet, rt>>

\* pages := make(map); entries, err := os.ReadDir(basePath/pages)
readPages ==
    /\ pc = "readPages"
    /\ IF ~fs.pages.exists
       THEN Fail("could not read the pages directory")
       ELSE pc' = "readCategory" /\ UNCHANGED newRet
    /\ pages' = NoPages
    /\ ci' = 1
    /\ UNCHANGED <<fs, heap, root, partials, layouts, fi, tcPages, rt>>

\* The outer loop as it would be if an entry of pages/ that is not a
\* directory were skipped, as a directory is in the inner loop.
readCategorySkipsFiles ==
    /\ pc = "readCategory"
    /\ IF ci > Len(fs.pages.entries)
       THEN /\ tcPages' = pages
            /\ pc' = "returned"
            /\ newRet' = New(Nil)
            /\ UNCHANGED <<ci, fi>>
       ELSE IF ~fs.pages.entries[ci].isDir
            THEN /\ ci' = ci + 1
                 /\ UNCHANGED <<pc, tcPages, newRet, fi>>
            ELSE /\ pc' = "pageFile"
                 /\ fi' = 1
                 /\ UNCHANGED <<ci, tcPages, newRet>>
    /\ UNCHANGED <<fs, heap, root, partials, layouts, pages, rt>>

\* The outer loop: the next entry of pages/ is listed as a directory,
\* whatever it is; after the last one, tc.pages = pages and New returns.
readCategory ==
    /\ pc = "readCategory"
    /\ IF ci > Len(fs.pages.entries)
       THEN /\ tcPages' = pages
            /\ pc' = "returned"
            /\ newRet' = New(Nil)
            /\ UNCHANGED fi
       ELSE LET entry == fs.pages.entries[ci]
            IN IF ~entry.isDir
               THEN /\ Fail("could not read the subpages directory " \o entry.name)
                    /\ UNCHANGED <<tcPages, fi>>
               ELSE /\ pc' = "pageFile"
                    /\ fi' = 1
                    /\ UNCHANGED <<tcPages, newRet>>
    /\ UNCHANGED <<fs, heap, root, partials, layouts, pages, ci, rt>>

\* The inner loop: a directory is skipped; a file is parsed into a clone of
\* the layouts and the result stored under its key, also when it is nil.
pageFile ==
    /\ pc = "pageFile"
    /\ LET files == fs.pages.entries[ci].files
       IN IF fi > Len(files)
          THEN /\ ci' = ci + 1
               /\ pc' = "readCategory"
               /\ UNCHANGED <<heap, pages, fi, newRet>>
          ELSE LET file == files[fi]
                   dirName == fs.pages.entries[ci].name
                   layout == clone(heap, layouts)
                   r == parseFiles(layout.heap, layout.ref, <<file>>)
                   key == pageKey(dirName, file.name)
                   stored == IF r.err = Nil THEN layout.ref ELSE 0
               IN IF file.isDir
                  THEN /\ fi' = fi + 1
                       /\ UNCHANGED <<heap, pages, ci, pc, newRet>>
                  ELSE IF layout.err # Nil
                  THEN /\ Fail("failed to clone layout template: " \o layout.err)
                       /\ UNCHANGED <<heap, pages, ci, fi>>
                  ELSE /\ heap' = r.heap
                       /\ pages' = [k \in DOMAIN pages \cup {key} |->
                                      IF k = key THEN stored ELSE pages[k]]
                       /\ IF r.err # Nil
                          THEN /\ Fail("failed to parse page template " \o key)
                               /\ UNCHANGED <<ci, fi>>
                          ELSE /\ fi' = fi + 1
                               /\ UNCHANGED <<ci, pc, newRet>>
    /\ UNCHANGED <<fs, root, partials, layouts, tcPages, rt>>

(***************************************************************************)
(* Rendering.  The data a caller passes: nil, a map[string]string with a   *)
(* Title, a struct with a Title field and no other.                        *)
(***************************************************************************)
DataChoices == {DataNil, DataMap, DataStruct}
LayoutChoices == {"app_layout", "auth_layout", "nonexistent_layout"}
PageChoices == {"home/index.html", "home/about.html", "blog/post.html",
                "nonexistent/page.html"}

\* The engine's HTML escaping of one character of a value.
escapeChar(c) ==
    CASE c = "<" -> "&lt;"
      [] c = ">" -> "&gt;"
      [] c = "&" -> "&amp;"
      [] OTHER -> c

\* The escaped value, character by character.
htmlEscape(val) == [i \in 1..Len(val) |-> escapeChar(val[i])]

\* {{.f}} on the data: nil data and a missing map key print nothing, a
\* field a struct does not have is an execution error.
evalField(data, f) ==
    IF f \in DOMAIN data.fields THEN [err |-> Nil, val |-> data.fields[f]]
    ELSE IF data.kind = "struct"
         THEN [err |-> "can't evaluate field " \o f, val |-> <<>>]
         ELSE [err |-> Nil, val |-> <<>>]

\* The fragments a body calls.
Called(body) == {body[i].v : i \in {j \in 1..Len(body) : body[j].k = "template"}}

\* The engine escapes a template on its first execution, following its
\* calls: the names reachable from `names`, defined or not.
RECURSIVE Reachable(_, _)
Reachable(frags, names) ==
    LET more == names \cup UNION {Called(frags[n]) : n \in names \cap DOMAIN frags}
    IN IF more = names THEN names ELSE Reachable(frags, more)

\* ExecuteTemplate before it writes: the name must be defined in the set,
\* and so must every fragment reachable from it.
lookupAndEscapeTemplate(frags, name) ==
    IF name \notin DOMAIN frags
    THEN "html/template: " \o name \o " is undefined"
    ELSE IF Reachable(frags, {name}) \subseteq DOMAIN frags THEN Nil
         ELSE "html/template: no such template"

\* The walk of the nodes, up to its next write.  `stack` holds the nodes
\* still to execute, innermost call last.
RECURSIVE walk(_, _, _)
walk(frags, stack, data) ==
    IF stack = <<>> THEN [kind |-> "end", out |-> <<>>, stack |-> <<>>, err |-> Nil]
    ELSE LET top == stack[Len(stack)]
             below == SubSeq(stack, 1, Len(stack) - 1)
         IN IF top = <<>> THEN walk(frags, below, data)
            ELSE LET node == Head(top)
                     rest == Append(below, Tail(top))
                 IN CASE node.k = "text" ->
                           [kind |-> "write", out |-> <<node.v>>, stack |-> rest, err |-> Nil]
                      [] node.k = "field" ->
                           LET r == evalField(data, node.v)
                           IN IF r.err # Nil
                              THEN [kind |-> "error", out |-> <<>>, stack |-> <<>>, err |-> r.err]
                              ELSE [kind |-> "write", out |-> htmlEscape(r.val),
                                    stack |-> rest, err |-> Nil]
                      [] node.k = "template" ->
                           IF Len(stack) - 1 = MaxExecDepth
                           THEN [kind |-> "error", out |-> <<>>, stack |-> <<>>,
                                 err |-> "exceeded maximum template depth"]
                           ELSE walk(frags, Append(rest, frags[node.v]), data)

\* An execution run from `stack` to its end: what it writes and returns.
RECURSIVE execute(_, _, _, _)
execute(frags, stack, data, out) ==
    LET w == walk(frags, stack, data)
    IN CASE w.kind = "write" -> execute(frags, w.stack, data, out \o w.out)
         [] w.kind = "error" -> [ret |-> w.err, out |-> out]
         [] w.kind = "end" -> [ret |-> Nil, out |-> out]

\* RenderPage run on its own against registry reg over heap h, into an
\* empty destination: what it returns and what the destination holds.
RenderPage(reg, h, layout, page, data) ==
    IF page \notin DOMAIN reg \/ reg[page] = 0
    THEN [ret |-> "page template not found: " \o page, out |-> <<>>]
    ELSE LET frags == h[reg[page]]
             err == lookupAndEscapeTemplate(frags, layout)
         IN IF err # Nil THEN [ret |-> err, out |-> <<>>]
            ELSE execute(frags, <<frags[layout]>>, data, <<>>)

\* A goroutine calls RenderPage(w, layout, page, data) on the engine New
\* returned, with a destination of its own that starts empty.
RenderCall(g, layout, page, data) ==
    /\ pc = "returned" /\ newRet.engine
    /\ rt[g].pc \in {"idle", "done"}
    /\ rt' = [rt EXCEPT ![g] = [Idle EXCEPT !.pc = "lookup", !.layout = layout,
                                            !.page = page, !.data = data]]
    /\ UNCHANGED loadVars

\* RenderLookup without the nil check: a miss returns nil.
RenderLookupNoCheck(g) ==
    /\ rt[g].pc = "lookup"
    /\ LET page == rt[g].page
           pageTemplate == IF page \in DOMAIN tcPages THEN tcPages[page] ELSE 0
       IN rt' = [rt EXCEPT ![g] =
                   IF pageTemplate = 0
                   THEN [@ EXCEPT !.pc = "done", !.ret = Nil]
                   ELSE [@ EXCEPT !.pc = "execute", !.tmpl = pageTemplate]]
    /\ UNCHANGED loadVars

\* RenderLookup treating the registry as a cache it consumes: the entry
\* found is deleted from tc.pages.
RenderLookupEvict(g) ==
    /\ rt[g].pc = "lookup"
    /\ LET page == rt[g].page
           pageTemplate == IF page \in DOMAIN tcPages THEN tcPages[page] ELSE 0
       IN /\ rt' = [rt EXCEPT ![g] =
                      IF pageTemplate = 0
                      THEN [@ EXCEPT !.pc = "done",
                                     !.ret = "page template not found: " \o page]
                      ELSE [@ EXCEPT !.pc = "execute", !.tmpl = pageTemplate]]
          /\ tcPages' = [k \in DOMAIN tcPages \ {page} |-> tcPages[k]]
    /\ UNCHANGED <<fs, heap, pc, root, partials, layouts, pages, ci, fi, newRet>>

\* pageTemplate := tc.pages[page]; nil: return the not-found error.
RenderLookup(g) ==
    /\ rt[g].pc = "lookup"
    /\ LET page == rt[g].page
           pageTemplate == IF page \in DOMAIN tcPages THEN tcPages[page] ELSE 0
       IN rt' = [rt EXCEPT ![g] =
                   IF pageTemplate = 0
                   THEN [@ EXCEPT !.pc = "done",
                                  !.ret = "page template not found: " \o page]
                   ELSE [@ EXCEPT !.pc = "execute", !.tmpl = pageTemplate]]
    /\ UNCHANGED loadVars

\* RenderExecute taking an undefined layout name for an empty template:
\* nothing is written and nil is returned.
RenderExecuteLenient(g) ==
    /\ rt[g].pc = "execute"
    /\ LET frags == heap[rt[g].tmpl]
           err == lookupAndEscapeTemplate(frags, rt[g].layout)
       IN rt' = [rt EXCEPT ![g] =
                   IF rt[g].layout \notin DOMAIN frags
                   THEN [@ EXCEPT !.pc = "done", !.ret = Nil]
                   ELSE IF err # Nil
                        THEN [@ EXCEPT !.pc = "done", !.ret = err]
                        ELSE [@ EXCEPT !.pc = "walk", !.stack = <<frags[rt[g].layout]>>]]
    /\ UNCHANGED loadVars

\* RenderExecute as it would be if a layout name the set lacks were added
\* to the page's set as an empty fragment before the error is returned.
RenderExecuteDefines(g) ==
    /\ rt[g].pc = "execute"
    /\ LET frags == heap[rt[g].tmpl]
           err == lookupAndEscapeTemplate(frags, rt[g].layout)
       IN /\ rt' = [rt EXCEPT ![g] =
                      IF err # Nil
                      THEN [@ EXCEPT !.pc = "done", !.ret = err]
                      ELSE [@ EXCEPT !.pc = "walk", !.stack = <<frags[rt[g].layout]>>]]
          /\ heap' = [heap EXCEPT ![rt[g].tmpl] = AddParseTree(frags, rt[g].layout, <<>>)]
    /\ UNCHANGED <<fs, pc, root, partials, layouts, pages, ci, fi, tcPages, newRet>>

\* pageTemplate.ExecuteTemplate(w, layout, data), up to its first write.
RenderExecute(g) ==
    /\ rt[g].pc = "execute"
    /\ LET frags == heap[rt[g].tmpl]
           err == lookupAndEscapeTemplate(frags, rt[g].layout)
       IN rt' = [rt EXCEPT ![g] =
                   IF err # Nil
                   THEN [@ EXCEPT !.pc = "done", !.ret = err]
                   ELSE [@ EXCEPT !.pc = "walk", !.stack = <<frags[rt[g].layout]>>]]
    /\ UNCHANGED loadVars

\* RenderWalk as it would be if the engine rendered each page through one
\* buffer of the page's: a write reaches the destination of every call
\* that is executing the same page.
RenderWalkShared(g) ==
    /\ rt[g].pc = "walk"
    /\ LET w == walk(heap[rt[g].tmpl], rt[g].stack, rt[g].data)
       IN rt' = [h \in Threads |->
                   IF h = g
                   THEN CASE w.kind = "write" ->
                               [rt[g] EXCEPT !.buf = @ \o w.out, !.stack = w.stack]
                          [] w.kind = "error" ->
                               [rt[g] EXCEPT !.pc = "done", !.ret = w.err, !.stack = <<>>]
                          [] w.kind = "end" ->
                               [rt[g] EXCEPT !.pc = "done", !.ret = Nil, !.stack = <<>>]
                   ELSE IF w.kind = "write" /\ rt[h].pc = "walk" /\ rt[h].tmpl = rt[g].tmpl
                        THEN [rt[h] EXCEPT !.buf = @ \o w.out]
                        ELSE rt[h]]
    /\ UNCHANGED loadVars

\* The execution goes on to its next write to w, to the error that stops
\* it, or to its end, where RenderPage returns nil.
RenderWalk(g) ==
    /\ rt[g].pc = "walk"
    /\ LET w == walk(heap[rt[g].tmpl], rt[g].stack, rt[g].data)
       IN rt' = [rt EXCEPT ![g] =
                   CASE w.kind = "write" ->
                          [@ EXCEPT !.buf = @ \o w.out, !.stack = w.stack]
                     [] w.kind = "error" ->
                          [@ EXCEPT !.pc = "done", !.ret = w.err, !.stack = <<>>]
                     [] w.kind = "end" ->
                          [@ EXCEPT !.pc = "done", !.ret = Nil, !.stack = <<>>]]
    /\ UNCHANGED loadVars

\* New alone: the loading of one directory tree.
LoadNext ==
    \/ loadRoot
    \/ loadPartials
    \/ loadLayouts
    \/ readPages
    \/ readCategory
    \/ pageFile

LoadSpec == Init /\ [][LoadNext]_vars

Next ==
    \/ loadRoot
    \/ loadPartials
    \/ loadLayouts
    \/ readPages
    \/ readCategory
    \/ pageFile
    \/ \E g \in Threads, layout \in LayoutChoices, page \in PageChoices,
          data \in DataChoices : RenderCall(g, layout, page, data)
    \/ \E g \in Threads : RenderLookup(g)
    \/ \E g \in Threads : RenderExecute(g)
    \/ \E g \in Threads : RenderWalk(g)

Spec == Init /\ [][Next]_vars

(***************************************************************************)
(* What the directory tree says, read off the tree and not off the run.    *)
(***************************************************************************)
Range(seq) == {seq[i] : i \in 1..Len(seq)}

\* The category directories of pages/ and the leaf files in them.
Categories == {e \in Range(fs.pages.entries) : e.isDir}
LeafFiles ==
    UNION { { [key |-> pageKey(d.name, f.name), name |-> f.name, src |-> f.src] :
              f \in {x \in Range(d.files) : ~x.isDir} } : d \in Categories }
LeafKeys == {l.key : l \in LeafFiles}

Returned == pc = "returned"
Succeeded == Returned /\ newRet.engine

NotFound(page) == "page template not found: " \o page

(***************************************************************************)
(* C1.  On an engine a successful New returned, RenderPage of a page key   *)
(* that is not in the registry returns the error "page template not        *)
(* found: <page>" and writes nothing to its destination, whatever the      *)
(* layout and the data: the call never gets past the lookup.               *)
(***************************************************************************)
C1_UnknownPageNotFound ==
    \A g \in Threads :
        (rt[g].pc # "idle" /\ rt[g].page \notin DOMAIN tcPages) =>
            /\ Succeeded
            /\ rt[g].buf = <<>>
            /\ rt[g].pc \in {"lookup", "done"}
            /\ rt[g].pc = "done" => rt[g].ret = NotFound(rt[g].page)

\* An engine with pages has answered a call for a page it does not hold.
C1_Witness ==
    \E g \in Threads :
        /\ rt[g].pc = "done"
        /\ rt[g].page = "nonexistent/page.html"
        /\ rt[g].layout = "app_layout"
        /\ rt[g].data = DataMap
        /\ "home/index.html" \in DOMAIN tcPages
        /\ rt[g].ret = NotFound("nonexistent/page.html")

(***************************************************************************)
(* C2.  RenderPage of a page key in the registry with a layout name that   *)
(* is not a fragment of that page's template set returns an error of the   *)
(* execution (never nil, and not the not-found error), whatever the data.  *)
(***************************************************************************)
C2_UnknownLayoutFails ==
    \A g \in Threads :
        (/\ rt[g].pc = "done"
         /\ rt[g].page \in DOMAIN tcPages
         /\ rt[g].layout \notin DOMAIN heap[tcPages[rt[g].page]]) =>
            /\ rt[g].ret # Nil
            /\ rt[g].ret # NotFound(rt[g].page)

\* A known page was asked for with a layout no file defines, and with a
\* layout only another tree's layouts/ would define.
C2_Witness ==
    /\ "home/index.html" \in DOMAIN tcPages
    /\ rt[1].pc = "done" /\ rt[1].page = "home/index.html"
    /\ rt[1].layout = "nonexistent_layout" /\ rt[1].ret # Nil
    /\ rt[2].pc = "done" /\ rt[2].page = "home/index.html"
    /\ rt[2].layout = "auth_layout" /\ rt[2].data = DataStruct
    /\ "auth_layout" \notin DOMAIN heap[tcPages["home/index.html"]]

\* Two goroutines' calls have the same arguments.
SameInputs(g, h) ==
    /\ rt[g].layout = rt[h].layout
    /\ rt[g].page = rt[h].page
    /\ rt[g].data = rt[h].data

(***************************************************************************)
(* C3.  Rendering is deterministic: when two calls with the same layout,   *)
(* page and data have completed, each into its own destination, and one    *)
(* of them succeeded, both succeeded and the two destinations hold the     *)
(* same bytes, whatever calls either goroutine made before.                *)
(***************************************************************************)
C3_Deterministic ==
    \A g, h \in Threads :
        (/\ rt[g].pc = "done" /\ rt[h].pc = "done"
         /\ SameInputs(g, h)
         /\ rt[g].ret = Nil) =>
            /\ rt[h].ret = Nil
            /\ rt[h].buf = rt[g].buf

\* Two successful renders of the same page with the same data, which
\* wrote escaped data, are both complete.
C3_Witness ==
    /\ rt[1].pc = "done" /\ rt[2].pc = "done"
    /\ SameInputs(1, 2)
    /\ rt[1].layout = "app_layout" /\ rt[1].page = "home/index.html"
    /\ rt[1].data = DataMap
    /\ rt[1].ret = Nil /\ rt[2].ret = Nil
    /\ Len(rt[1].buf) > 4

(***************************************************************************)
(* C4.  Construction is all-or-nothing.  tc.pages holds nothing until      *)
(* loadPages has compiled every page; when a step fails New returns a nil  *)
(* engine with a non-nil error and tc.pages still holds nothing, whatever  *)
(* pages were compiled before; when New returns an engine the error is nil *)
(* and the registry holds a compiled set for every leaf file of the tree.  *)
(***************************************************************************)
C4_AllOrNothing ==
    /\ ~Succeeded => tcPages = NoPages
    /\ (Returned /\ newRet.err # Nil) => ~newRet.engine
    /\ Succeeded =>
          /\ newRet.err = Nil
          /\ LeafKeys \subseteq DOMAIN tcPages
          /\ \A k \in DOMAIN tcPages : tcPages[k] # 0

\* New failed on a page file after it had compiled another page.
C4_Witness ==
    /\ Returned
    /\ newRet.err = "failed to parse page template home/index.html"
    /\ "home/about.html" \in DOMAIN pages /\ pages["home/about.html"] # 0
    /\ ~newRet.engine
    /\ tcPages = NoPages

\* Every file the pattern matches in dir can be read and parsed, and there
\* is at least one.
GlobOK(dir) == Glob(dir) # <<>> /\ \A e \in Range(Glob(dir)) : Parseable(e)

RootOK == GlobOK(fs.root)

\* pages/ exists, each of its entries is a directory, and each file in
\* each of them parses.
PagesOK ==
    /\ fs.pages.exists
    /\ \A e \in Range(fs.pages.entries) :
          e.isDir /\ \A f \in Range(e.files) : f.isDir \/ f.src.ok

NoMatch == "html/template: pattern matches no files"

(***************************************************************************)
(* C5.  Partials are optional: when partials/ does not exist or holds no   *)
(* .html file, the partials loader does not fail and the Partials Set has  *)
(* exactly the fragments of the Root Set, and New succeeds provided the    *)
(* other layers load.                                                      *)
(***************************************************************************)
C5_PartialsOptional ==
    Glob(fs.partials) = <<>> =>
        /\ (root # 0 /\ pc \notin {"loadRoot", "loadPartials"}) =>
              (partials # 0 /\ heap[partials] = heap[root])
        /\ (Returned /\ RootOK /\ GlobOK(fs.layouts) /\ PagesOK) => newRet.err = Nil

(***************************************************************************)
(* C6, as stated.  When layouts/ holds no .html file or does not exist,    *)
(* the layout loader and New still succeed if the other layers load.       *)
(***************************************************************************)
C6_NoLayoutsStillLoads ==
    (/\ Glob(fs.layouts) = <<>> /\ Returned
     /\ RootOK /\ GlobOK(fs.partials) /\ PagesOK) => Succeeded

(***************************************************************************)
(* C6, amended.  When layouts/ holds no .html file or does not exist, New  *)
(* fails: it returns a nil engine and an error, which is "failed to load   *)
(* layouts: ... pattern matches no files" when the root and the partials   *)
(* loaded, no page is compiled and no registry is ever set.                *)
(***************************************************************************)
C6_NoLayoutsFailsNew ==
    (Glob(fs.layouts) = <<>> /\ Returned) =>
        /\ ~newRet.engine
        /\ newRet.err # Nil
        /\ (RootOK /\ GlobOK(fs.partials)) =>
              newRet.err = "failed to load layouts: " \o NoMatch
        /\ pages = NoPages
        /\ tcPages = NoPages

\* New has failed on the layouts of a tree that is good but for them.
C6_Witness ==
    /\ Returned
    /\ ~fs.layouts.exists
    /\ RootOK /\ GlobOK(fs.partials) /\ PagesOK
    /\ fs.pages.entries # <<>>
    /\ newRet.err = "failed to load layouts: " \o NoMatch

C8_RegistryFrozen ==
    [][Succeeded =>
         /\ tcPages' = tcPages
         /\ \A k \in DOMAIN tcPages : heap'[tcPages[k]] = heap[tcPages[k]]]_vars

\* One call has succeeded and another has failed in mid-execution, on an
\* engine whose registry holds exactly the leaf files of its tree.
C8_Witness ==
    /\ Succeeded
    /\ {"blog/post.html", "home/about.html", "home/index.html"} \subseteq DOMAIN tcPages
    /\ rt[1].pc = "done" /\ rt[1].ret = Nil /\ rt[1].page = "home/about.html"
    /\ rt[2].pc = "done" /\ rt[2].ret = "exceeded maximum template depth"
    /\ rt[2].buf # <<>>

IsPrefix(a, b) == Len(a) <= Len(b) /\ a = SubSeq(b, 1, Len(a))

\* The call of goroutine g, so far, is as RenderPage run alone would be.
AsAlone(g) ==
    LET alone == RenderPage(tcPages, heap, rt[g].layout, rt[g].page, rt[g].data)
    IN IF rt[g].pc = "done"
       THEN rt[g].ret = alone.ret /\ rt[g].buf = alone.out
       ELSE IsPrefix(rt[g].buf, alone.out)

(***************************************************************************)
(* C9.  Concurrent rendering is safe.  In every interleaving of the calls  *)
(* of the goroutines, each into its own destination, a call that has       *)
(* completed has returned what RenderPage returns when run alone and its   *)
(* destination holds the same bytes, a call under way has written a prefix *)
(* of them, and no step of a call changes the engine: its registry, the    *)
(* template sets, the tree it was loaded from.                             *)
(***************************************************************************)
C9_ConcurrentAsAlone ==
    /\ [](\A g \in Threads : rt[g].pc # "idle" => AsAlone(g))
    /\ [][Succeeded => UNCHANGED <<tcPages, heap, fs>>]_vars

\* One call has completed while another, on the same page, was in the
\* middle of its writes.
C9_Witness ==
    /\ rt[1].pc = "done" /\ rt[1].ret = Nil /\ rt[1].buf # <<>>
    /\ rt[2].pc = "walk" /\ rt[2].buf # <<>>
    /\ rt[2].page = rt[1].page
    /\ rt[2].data # rt[1].data

\* The pages compiled so far, and the leaf file a key names.
Compiled == {k \in DOMAIN pages : pages[k] # 0}
LeafOf(k) == CHOOSE l \in LeafFiles : l.key = k

\* Each compiled page has a set of its own: the layouts' fragments and
\* those of its own file, and nothing of another page's.
Isolated ==
    \A k \in Compiled :
        /\ pages[k] \notin {root, partials, layouts}
        /\ \A j \in Compiled : j # k => pages[j] # pages[k]
        /\ DOMAIN heap[pages[k]] =
              DOMAIN heap[layouts] \cup {LeafOf(k).name} \cup DOMAIN LeafOf(k).src.defs
        /\ \A n \in DOMAIN heap[pages[k]] :
              IF n \in DOMAIN LeafOf(k).src.defs /\ LeafOf(k).src.defs[n] # <<>>
              THEN heap[pages[k]][n] = LeafOf(k).src.defs[n]
              ELSE IF n = LeafOf(k).name /\ LeafOf(k).src.body # <<>>
                   THEN heap[pages[k]][n] = LeafOf(k).src.body
                   ELSE n \in DOMAIN heap[layouts] =>
                          heap[pages[k]][n] = heap[layouts][n]

(***************************************************************************)
(* C10.  Pages are isolated.  Every page file is parsed into a fresh clone *)
(* of the Layout Set: compiling a page leaves the Layout Set as it was,    *)
(* each page has a set of its own, and a page's set is the Layout Set plus *)
(* what its own file defines, so a fragment another page defined or        *)
(* redefined is never in it, in whatever order the pages were compiled.    *)
(***************************************************************************)
C10_PagesIsolated ==
    /\ []Isolated
    /\ [][layouts # 0 => (layouts' = layouts /\ heap'[layouts] = heap[layouts])]_vars

\* A page that redefines "content" was compiled first, and a page compiled
\* after it, which does not, has the layout's own "content".
C10_Witness ==
    /\ {"blog/post.html", "home/about.html", "home/index.html"} \subseteq Compiled
    /\ heap[pages["blog/post.html"]]["content"] = PostSrc.defs["content"]
    /\ heap[pages["home/index.html"]]["content"] = IndexSrc.defs["content"]
    /\ heap[pages["home/about.html"]]["content"] = AppSrc.defs["content"]
    /\ heap[layouts]["content"] = AppSrc.defs["content"]

\* The keys the directory tree calls for: one for each entry that is not a
\* directory, of each directory under pages/.
TreeKeys ==
    UNION { { d.name \o "/" \o f.name : f \in {x \in Range(d.files) : ~x.isDir} } :
            d \in {e \in Range(fs.pages.entries) : e.isDir} }

(***************************************************************************)
(* C11.  After a successful New the registry's keys are exactly the        *)
(* "<category>/<filename>" of the entries that are not directories of the  *)
(* directories under pages/: every leaf file has its entry, holding a      *)
(* compiled set, whatever its extension; a directory at the leaf level is  *)
(* skipped without an error and has no entry; there is no other key.       *)
(***************************************************************************)
C11_KeysAreLeafFiles ==
    Succeeded =>
        /\ DOMAIN tcPages = TreeKeys
        /\ \A k \in DOMAIN tcPages : tcPages[k] \in 1..Len(heap)
        /\ \A d \in Range(fs.pages.entries) : \A f \in Range(d.files) :
              f.isDir => (d.name \o "/" \o f.name) \notin DOMAIN tcPages

\* New succeeded on a tree with two categories, a leaf file that is not
\* .html and a directory at the leaf level.
C11_Witness ==
    /\ Succeeded
    /\ DOMAIN tcPages = {"blog/notes.txt", "blog/post.html",
                         "home/about.html", "home/index.html"}
    /\ \E d \in Range(fs.pages.entries) : \E f \in Range(d.files) :
          f.isDir /\ f.name = "drafts"

\* The entries of pages/ that are plain files.
PlainCategoryEntries ==
    IF fs.pages.exists THEN {e \in Range(fs.pages.entries) : ~e.isDir} ELSE {}

\* Everything but the plain files under pages/ loads.
RestValid ==
    /\ RootOK /\ GlobOK(fs.partials) /\ GlobOK(fs.layouts)
    /\ \A e \in Range(fs.pages.entries) :
          e.isDir => \A f \in Range(e.files) : f.isDir \/ f.src.ok

(***************************************************************************)
(* C12.  An entry directly under pages/ is listed as a directory whatever  *)
(* it is: when pages/ holds a plain file at the category level New never   *)
(* succeeds and the registry is never assigned, and when the root, the     *)
(* partials, the layouts and every page file are valid the error New       *)
(* returns is "could not read the subpages directory" of that entry, the   *)
(* pages before it having been compiled; the entry is never skipped.       *)
(***************************************************************************)
C12_CategoryFileIsFatal ==
    PlainCategoryEntries # {} =>
        /\ ~Succeeded
        /\ tcPages = NoPages
        /\ pc = "readCategory" => ci <= Len(fs.pages.entries)
        /\ (Returned /\ RestValid) =>
              \E e \in PlainCategoryEntries :
                  /\ newRet.err = "could not read the subpages directory " \o e.name
                  /\ ci <= Len(fs.pages.entries) /\ fs.pages.entries[ci] = e

\* New failed on the plain file notes.txt under pages/, after it had
\* compiled the page of the category before it, everything else valid.
C12_Witness ==
    /\ Returned /\ RestValid
    /\ PlainCategoryEntries # {}
    /\ ~newRet.engine
    /\ newRet.err = "could not read the subpages directory notes.txt"
    /\ "home/index.html" \in DOMAIN pages
    /\ pages["home/index.html"] # 0

====
